---------------------------- MODULE Spec2Model ----------------------------
(***************************************************************************)
(* Woodall.ipynb: is_woodall(z), the cube-root bounded search for a k with *)
(* k * 2**k - 1 = z, and naive_is_woodall(z), the unbounded search the     *)
(* notebook's tests compare it with.                                       *)
(*                                                                         *)
(* One behaviour is one differential run on an argument z: is_woodall(z)   *)
(* is called and, once it has returned, naive_is_woodall(z).  An exception *)
(* in is_woodall ends the run.  Each function has its own frame, a record  *)
(* of its position and its local names.                                    *)
(*                                                                         *)
(* A Python int is unbounded.  The argument is held as top and z: its      *)
(* value is z when top = 0 and 2^top + z when top > 0 (top >= DBL_MAX_EXP, *)
(* a magnitude beyond the integers TLC computes with).                     *)
(***************************************************************************)
EXTENDS Integers, FiniteSets, Sequences, TLC

VARIABLES z, top, iw, nv

vars == <<z, top, iw, nv>>

---------------------------------------------------------------------------
(* Bounds of the model. *)

\* the arguments -MaxNeg .. MaxZ are all tried
MaxZ == 11000
MaxNeg == 3
\* the arguments 2^e - 1 and 2^e, e in DBL_MAX_EXP .. DBL_MAX_EXP + MaxTopExtra
MaxTopExtra == 2

---------------------------------------------------------------------------
(* Numbers of the source and of the float format pow() computes in. *)

\* the published members the first test looks z up in (those below 2^31)
woodalls ==
    {1, 7, 23, 63, 159, 383, 895,
     2047, 4607, 10239, 22527,
     49151, 106495, 229375, 491519,
     1048575, 2228223, 4718591,
     9961471, 20971519, 44040191,
     92274687, 192937983, 402653183,
     838860799, 1744830463}

\* a float holds magnitudes below 2^DBL_MAX_EXP; pow(w, 1/3) converts w to one
DBL_MAX_EXP == 1024

\* the first z searched through the cube-root range
SmallCaseLimit == 64

---------------------------------------------------------------------------
(* Arithmetic the source relies on. *)

\* floor of the cube root of w, the bound of the notebook's proposition, for
\* 0 <= w < 1290^3 (1290^3 is the largest cube below 2^31)
ICbrt(w) ==
    CHOOSE c \in 0 .. (IF w < 1289 THEN w ELSE 1289) :
        c * c * c <= w /\ (c + 1) * (c + 1) * (c + 1) > w

\* int(pow(w, 1/3)) in double precision, 1 <= w < 2^53.  The exponent 1/3 is
\* the double just below one third, so the correctly rounded power is no
\* greater than the real cube root: at a perfect cube c^3 with c >= 4 it is
\* the double just below c (pow(64, 1/3) = 3.9999999999999996) and int()
\* truncates it to c - 1; everywhere else below 2^31 the floor is unchanged.
IntPowThird(w) ==
    LET c == ICbrt(w)
    IN  IF c * c * c = w /\ c >= 4 THEN c - 1 ELSE c

\* float(w) raises OverflowError: w = 2^t + n with t > 0 and 0 <= n < 2^31
\* needs the exponent t + 1, which a double has only below DBL_MAX_EXP
FloatOverflows(t) == t >= DBL_MAX_EXP

\* range(start, stop)
Range(start, stop) == [start |-> start, stop |-> stop]

Elements(r) == r.start .. (r.stop - 1)

---------------------------------------------------------------------------
(* is_woodall *)

\* the guard written `z < 0`
NotPositiveStrict(n, t) == t = 0 /\ n < 0

\* `z < 1`: an argument with a high part is positive
NotPositive(n, t) == t = 0 /\ n < 1

\* `z < 64`
InSmallCase(n, t) == t = 0 /\ n < SmallCaseLimit

\* the lambda written with `2 * k` for `2 ** k`
woodallTimes(k, w) == k * 2 * k = w

\* woodall = lambda k, w=w: k * 2 ** k == w
woodall(k, w) == k * 2^k = w

\* the else branch without the `+ 1` that makes int(pow(w, 1/3)) an element
RangeWithoutPlusOne(n, t, w) ==
    IF InSmallCase(n, t) THEN Range(1, 4) ELSE Range(1, IntPowThird(w))

\* range(1, 4) if z < 64 else range(1, int(pow(w, 1/3)) + 1)
RangeOfKToCheck(n, t, w) ==
    IF InSmallCase(n, t) THEN Range(1, 4) ELSE Range(1, IntPowThird(w) + 1)

\* the else branch converts w to a float before any range exists
RangeRaises(n, t) == ~InSmallCase(n, t) /\ FloatOverflows(t)

\* any(map(woodall, r)) as a value, for ranges whose products TLC can form
AnyWoodall(r, w) == \E k \in Elements(r) : woodall(k, w)

\* if z < 1: return False
IW_Guard ==
    /\ iw.pc = "l26"
    /\ iw' = IF NotPositive(z, top)
             THEN [iw EXCEPT !.pc = "done", !.result = FALSE]
             ELSE [iw EXCEPT !.pc = "l28"]
    /\ UNCHANGED <<z, top, nv>>

\* w = z + 1 and the lambda that pins it
IW_AssignW ==
    /\ iw.pc = "l28"
    /\ iw' = [iw EXCEPT !.pc = "l30", !.w = z + 1,
                        !.bound = @ \cup {"w", "woodall"}]
    /\ UNCHANGED <<z, top, nv>>

\* range_of_k_to_check = ...
IW_Range ==
    /\ iw.pc = "l30"
    /\ iw' = IF RangeRaises(z, top)
             THEN [iw EXCEPT !.pc = "raised"]
             ELSE LET r == RangeOfKToCheck(z, top, iw.w)
                  IN  [iw EXCEPT !.pc = "l32", !.range_of_k_to_check = r,
                                 !.k = r.start,
                                 !.bound = @ \cup {"range_of_k_to_check"}]
    /\ UNCHANGED <<z, top, nv>>

\* return any(map(woodall, range_of_k_to_check)): one k per step, in order,
\* stopping at the first k that satisfies woodall
IW_Any ==
    /\ iw.pc = "l32"
    /\ iw' = IF iw.k >= iw.range_of_k_to_check.stop
             THEN [iw EXCEPT !.pc = "done", !.result = FALSE]
             ELSE IF woodall(iw.k, iw.w)
                  THEN [iw EXCEPT !.pc = "done", !.result = TRUE]
                  ELSE [iw EXCEPT !.k = @ + 1]
    /\ UNCHANGED <<z, top, nv>>

---------------------------------------------------------------------------
(* naive_is_woodall *)

\* the candidate written with `2*k` for `2**k`
CandidateTimes(k) == k * 2 * k

\* k*2**k
Candidate(k) == k * 2^k

\* the loop without its increment
NextKStuck(k) == k

\* k += 1
NextK(k) == k + 1

\* the loop written `while candidate < w`
LoopConditionStrict(candidate, w) == candidate < w

\* while candidate <= w
LoopCondition(candidate, w) == candidate <= w

\* k = 1; w = z + 1; candidate = k*2**k.  Called once is_woodall has returned,
\* which no argument with a high part lets it do.
N_Init ==
    /\ iw.pc = "done"
    /\ nv.pc = "l197"
    /\ nv' = [nv EXCEPT !.pc = "l200", !.k = 1, !.w = z + 1,
                        !.candidate = Candidate(1)]
    /\ UNCHANGED <<z, top, iw>>

\* one test of the while condition and, when it holds, one pass of the body
N_Loop ==
    /\ nv.pc = "l200"
    /\ nv' = IF LoopCondition(nv.candidate, nv.w)
             THEN IF nv.w = nv.candidate
                  THEN [nv EXCEPT !.pc = "done", !.result = TRUE]
                  ELSE [nv EXCEPT !.k = NextK(nv.k),
                                  !.candidate = Candidate(NextK(nv.k))]
             ELSE [nv EXCEPT !.pc = "done", !.result = FALSE]
    /\ UNCHANGED <<z, top, iw>>

---------------------------------------------------------------------------
(* The run. *)

\* the arguments with a high part: 2^e - 1 and 2^e
Tops == DBL_MAX_EXP .. (DBL_MAX_EXP + MaxTopExtra)

Init ==
    /\ \/ /\ top = 0
          /\ z \in ((0 - MaxNeg) .. MaxZ) \cup woodalls
       \/ /\ top \in Tops
          /\ z \in {-1, 0}
    /\ iw = [pc |-> "l26", w |-> 0, range_of_k_to_check |-> Range(0, 0),
             k |-> 0, result |-> FALSE, bound |-> {}]
    /\ nv = [pc |-> "l197", k |-> 0, w |-> 0, candidate |-> 0,
             result |-> FALSE]

Next == IW_Guard \/ IW_AssignW \/ IW_Range \/ IW_Any \/ N_Init \/ N_Loop

Spec == Init /\ [][Next]_vars

\* the interpreter runs a call until it returns or raises
LiveSpec == Spec /\ WF_vars(Next)

---------------------------------------------------------------------------
(* The definition the functions decide: z is a Woodall number when         *)
(* z = k * 2**k - 1 for an integer k >= 1.  k * 2^k = w is stated as       *)
(* "2^k divides w with quotient k", and 2^k <= w bounds k by log2 w.       *)

RECURSIVE Log2(_)
Log2(n) == IF n < 2 THEN 0 ELSE 1 + Log2(n \div 2)

Witnesses(w) == {k \in 1 .. Log2(w) : w % 2^k = 0 /\ w \div 2^k = k}

\* the least k >= 1 with k * 2^k >= w
RECURSIVE LeastKFrom(_, _)
LeastKFrom(k, w) == IF k * 2^k >= w THEN k ELSE LeastKFrom(k + 1, w)

LeastK(w) == LeastKFrom(1, w)

IWReturned == iw.pc = "done"

NVReturned == nv.pc = "done"

---------------------------------------------------------------------------
(* Claims. *)

\* C1: for every z from 0 up to the largest published member, is_woodall(z)
\* is true exactly when z is in the published set (here: its members and
\* every other z the model draws, all below 2^31).
C1_PublishedSetDecides ==
    (top = 0 /\ z >= 0 /\ IWReturned) => (iw.result <=> z \in woodalls)

\* C2: is_woodall(z) and naive_is_woodall(z) return the same boolean.
C2_DifferentialEquivalence ==
    NVReturned => (iw.result <=> nv.result)

\* C3: for every z < 1 is_woodall returns False, and does so before w is
\* assigned or any k is tried: it goes from line 26 straight to its return,
\* with no local name bound and no k drawn from a range.
C3_NonPositiveReturnsFalseAtOnce ==
    (top = 0 /\ z < 1) =>
        /\ iw.pc \in {"l26", "done"}
        /\ iw.bound = {}
        /\ iw.k = 0
        /\ IWReturned => ~iw.result

C3_Witness == top = 0 /\ z < 1 /\ IWReturned /\ ~iw.result

\* C4: is_woodall is total: no call raises, whatever the magnitude of z.
C4_NeverRaises == iw.pc # "raised"

\* C5: for 60 <= z <= 68 the search of k in {1, 2, 3} and the search of k in
\* 1 .. int(pow(z + 1, 1/3)) give the same boolean, is_woodall(63) is true
\* and is_woodall(64) is false.
C5_BranchesAgreeAround64 ==
    (top = 0 /\ z \in 60 .. 68 /\ IWReturned) =>
        /\ AnyWoodall(Range(1, 4), z + 1)
             <=> AnyWoodall(Range(1, IntPowThird(z + 1) + 1), z + 1)
        /\ z = 63 => iw.result
        /\ z = 64 => ~iw.result

C8_NaiveDecidesDefinition ==
    NVReturned =>
        /\ nv.result <=> Witnesses(z + 1) # {}
        /\ z < 1 => (~nv.result /\ nv.k = 1)

C8_Witness == NVReturned /\ nv.result /\ nv.k >= 4

\* C9: every call of naive_is_woodall returns, and its k never exceeds the
\* least k with k * 2^k >= z + 1.
C9_NaiveTerminates ==
    /\ (nv.pc = "l200") ~> NVReturned
    /\ [](nv.pc \in {"l200", "done"} => nv.k <= LeastK(z + 1))

C9_Witness == NVReturned /\ ~nv.result /\ nv.k >= 4 /\ nv.k = LeastK(z + 1)

\* C10: is_woodall gives no false positive: when it returns True, z >= 1 and
\* exactly one k of the searched range has k * 2^k - 1 = z, the k it stopped at.
C10_NoFalsePositive ==
    (IWReturned /\ iw.result) =>
        /\ top = 0
        /\ z >= 1
        /\ LET S == Witnesses(z + 1) \cap Elements(iw.range_of_k_to_check)
           IN  Cardinality(S) = 1 /\ iw.k \in S

C10_Witness ==
    /\ IWReturned /\ iw.result /\ z >= SmallCaseLimit
    /\ iw.k < iw.range_of_k_to_check.stop - 1

====
